---- MODULE Spec2Model ----
(***************************************************************************)
(* Model of scripts/pipeline.py: the per-directory statistics pipeline.    *)
(*                                                                         *)
(*   Detection / DetectionList   the two result classes, their csv_row()   *)
(*                               and DetectionList.add()                   *)
(*   FeaturePipeline             process_directory() (a depth-first walk   *)
(*                               with one stats.csv per directory) and     *)
(*                               process_image()                           *)
(*                                                                         *)
(* Numbers.  Responses are small naturals.  f_mean, r_mean and r_std are   *)
(* exact rationals <<numerator, denominator>> in lowest terms; r_std is    *)
(* carried as its square (the population variance), which determines it.   *)
(* r_min and r_max are the responses themselves.                           *)
(*                                                                         *)
(* Files.  A file is named by its stem, a sequence of strings: <<"1">> is  *)
(* an input file, <<"1", "_SIFT">> the annotated picture 1__SIFT.jpg that  *)
(* process_image writes next to it when annotate is set.  os.scandir reads *)
(* a directory lazily, so a picture written during the walk of its         *)
(* directory may be yielded later in that walk and be processed as an      *)
(* image itself.                                                           *)
(*                                                                         *)
(* Streams.  The code opens stats.csv and never closes it; when a stream   *)
(* is closed is left to the runtime (OpenStreams).                         *)
(*                                                                         *)
(* Two specifications:                                                     *)
(*   Spec       a run of process_directory over a directory tree           *)
(*   MergeSpec  DetectionList.add applied to objects in any order          *)
(***************************************************************************)
EXTENDS Integers, Sequences, FiniteSets, TLC

\* ------------------------------------------------------------------ bounds
NumDirs == 2
NumFiles == 2
MaxAdds == 5
NumLists == 3
MaxRelisted == 1

\* ---------------------------------------------------------- configuration
\* FeaturePipeline.detectors, by class name, in configured order.
DetectorSeq == <<"SIFT", "BRISK">>

DetectorNames == {DetectorSeq[i] : i \in DOMAIN DetectorSeq}

\* The pictures a decodable file may hold; a picture is identified by the
\* number of keypoints the first detector finds in it.
Images == {1, 2}

\* detector.detect(image, None), then [kp.response for kp in keypoints].
\* SIFT finds `image` keypoints with responses 1..image; BRISK finds one
\* keypoint less, each with response `image`.
Detect(name, image) ==
  IF name = "SIFT" THEN [i \in 1..image |-> i]
  ELSE [i \in 1..(image - 1) |-> image]

\* ------------------------------------------------------------- arithmetic
RECURSIVE GCD(_, _)
GCD(a, b) == IF b = 0 THEN a ELSE GCD(b, a % b)

\* The rational n/d (d > 0, n >= 0) in lowest terms.
Rat(n, d) == LET g == GCD(n, d) IN <<n \div g, d \div g>>

RECURSIVE Sum(_)
Sum(s) == IF s = <<>> THEN 0 ELSE Head(s) + Sum(Tail(s))

RECURSIVE SumSq(_)
SumSq(s) == IF s = <<>> THEN 0 ELSE Head(s) * Head(s) + SumSq(Tail(s))

\* min(responses), max(responses) of a non-empty list.
Min(s) == CHOOSE x \in {s[i] : i \in DOMAIN s} : \A j \in DOMAIN s : x <= s[j]

Max(s) == CHOOSE x \in {s[i] : i \in DOMAIN s} : \A j \in DOMAIN s : x >= s[j]

\* np.mean(responses)
Mean(s) == Rat(Sum(s), Len(s))

\* np.std(responses), as its square: (N * sum(x^2) - sum(x)^2) / N^2.
Std(s) == Rat(Len(s) * SumSq(s) - Sum(s) * Sum(s), Len(s) * Len(s))

\* The number of occurrences of v in s.
CountIn(s, v) == Cardinality({i \in DOMAIN s : s[i] = v})

\* ------------------------------------------------------------ the classes
csv_header ==
  [columns |-> <<"path", "detector", "d_num", "f_mean", "r_min", "r_max", "r_mean", "r_std">>]

Row(path, detector, d_num, f_mean, r_min, r_max, r_mean, r_std) ==
  [path |-> path, detector |-> detector, d_num |-> d_num, f_mean |-> f_mean,
   r_min |-> r_min, r_max |-> r_max, r_mean |-> r_mean, r_std |-> r_std]

\* The literal row  path,detector,0,0,0,0,0,0
ZeroRow(path, detector) ==
  Row(path, detector, 0, Rat(0, 1), 0, 0, Rat(0, 1), Rat(0, 1))

\* What min() of an empty list raises.
ValueError == [raised |-> "ValueError"]

\* What a failed assert raises.
AssertionError == [raised |-> "AssertionError"]

Raised(x) == "raised" \in DOMAIN x

\* Detection.__init__
Detection(path, detector_name, responses) ==
  [path |-> path, detector_name |-> detector_name, responses |-> responses,
   cls |-> "Detection"]

\* Detection.csv_row
Detection_csv_row(self) ==
  IF Len(self.responses) > 0
  THEN Row(self.path, self.detector_name, 1, Rat(Len(self.responses), 1),
           Min(self.responses), Max(self.responses),
           Mean(self.responses), Std(self.responses))
  ELSE ZeroRow(self.path, self.detector_name)

\* os.path.join(path, '**')
AggPath(dir) == [name |-> <<"**">>, dir |-> dir, ext |-> ""]

\* DetectionList.__init__
DetectionList(path, detector_name) ==
  [path |-> AggPath(path), detector_name |-> detector_name, responses |-> <<>>,
   cls |-> "DetectionList", num_detections |-> 0]

\* A plausible slip: a merged DetectionList counts as one detection.
DetectionList_add_CountsMerges(self, detection) ==
  IF detection.detector_name # self.detector_name THEN AssertionError
  ELSE [self EXCEPT !.responses = self.responses \o detection.responses,
                    !.num_detections = self.num_detections + 1]

\* A plausible slip: the responses of a merged DetectionList are dropped.
DetectionList_add_DropsListResponses(self, detection) ==
  IF detection.detector_name # self.detector_name THEN AssertionError
  ELSE IF detection.cls = "DetectionList"
  THEN [self EXCEPT !.num_detections = self.num_detections + detection.num_detections]
  ELSE [self EXCEPT !.responses = self.responses \o detection.responses,
                    !.num_detections = self.num_detections + 1]

\* A plausible slip: the detector names are not compared.
DetectionList_add_NoAssert(self, detection) ==
  [self EXCEPT !.responses = self.responses \o detection.responses,
               !.num_detections =
                 IF detection.cls = "DetectionList"
                 THEN self.num_detections + detection.num_detections
                 ELSE self.num_detections + 1]

\* DetectionList.add: self after the call, or the AssertionError it raises.
DetectionList_add(self, detection) ==
  IF detection.detector_name # self.detector_name THEN AssertionError
  ELSE [self EXCEPT !.responses = self.responses \o detection.responses,
                    !.num_detections =
                      IF detection.cls = "DetectionList"
                      THEN self.num_detections + detection.num_detections
                      ELSE self.num_detections + 1]

\* DetectionList.csv_row: the row, or the ValueError that min() raises.
DetectionList_csv_row(self) ==
  IF self.num_detections > 0
  THEN IF self.responses = <<>> THEN ValueError
       ELSE Row(self.path, self.detector_name, self.num_detections,
                Rat(Len(self.responses), self.num_detections),
                Min(self.responses), Max(self.responses),
                Mean(self.responses), Std(self.responses))
  ELSE ZeroRow(self.path, self.detector_name)


\* ------------------------------------------------------------------ state
VARIABLES
  parent,     \* the directory tree: parent[d] of every directory but the root
  files,      \* the files: files[f] = [image, dir, ext, decodable]
  recurse,    \* args.recurse
  annotate,   \* args.annotate
  status,     \* "idle", "running", "returned" or "raised"
  stack,      \* the active calls of process_directory, outermost first
  stats,      \* stats[d]: the lines written to stats.csv of directory d
  opened,     \* the directories whose stats.csv the run has opened
  returned,   \* d :> the detection_lists process_directory(d) returned
  exited,     \* the directories whose call has ended, by return or by exception
  read,       \* the files cv2.imread was called on so far
  calls,      \* the detector.detect invocations made so far
  lists,      \* MergeSpec: the DetectionList objects
  members,    \* MergeSpec: per list, the Detections merged into it (a bag)
  grouped,    \* MergeSpec: the lists built with a merge of another list
  adds,       \* MergeSpec: the number of add calls made so far
  consumed,   \* MergeSpec: the lists that were merged into another list
  mstatus     \* MergeSpec: "ok" or "AssertionError"

treeVars == <<parent, recurse, annotate>>

fsVars == <<parent, files, recurse, annotate>>

runVars == <<status, stack, stats, opened, returned, exited, read, calls>>

mergeVars == <<lists, members, grouped, adds, consumed, mstatus>>

vars == <<parent, files, recurse, annotate, status, stack, stats, opened, returned,
          exited, read, calls, lists, members, grouped, adds, consumed, mstatus>>

\* ------------------------------------------------------------ file system
Dirs == 1..NumDirs

\* args.path
Root == 1

FileIds == 1..NumFiles

\* The stem of the i-th input file.
Name(i) == <<ToString(i)>>

\* The files the tree holds before the run.
InputNames == {Name(i) : i \in FileIds}

\* What a file can be: a picture under another extension, a .jpg that does
\* not decode, and .jpg/.JPG pictures.  Extensions are kept without the dot.
FileKinds ==
  {[image |-> 2, ext |-> "png", decodable |-> TRUE],
   [image |-> 1, ext |-> "jpg", decodable |-> FALSE]}
  \cup {[image |-> i, ext |-> IF i = 1 THEN "JPG" ELSE "jpg", decodable |-> TRUE] :
        i \in Images}

\* An order on the kinds of file, used to number the input files.
KindRank(file) ==
  IF file.ext = "png" THEN 0 ELSE IF ~file.decodable THEN 1 ELSE 1 + file.image

\* str.lower(), on the extensions in use.
Lower(ext) == IF ext = "JPG" THEN "jpg" ELSE ext

\* entry.name.lower().endswith('.jpg')
IsJpg(f) == Lower(files[f].ext) = "jpg"

\* entry.path of a file: os.path.join(path, entry.name)
FilePath(f) == [name |-> f, dir |-> files[f].dir, ext |-> files[f].ext]

\* f'_{detector_name}', the suffix process_image passes to output_path.
Suffix == [i \in DOMAIN DetectorSeq |-> "_" \o DetectorSeq[i]]

\* output_path: foo/fee.fie becomes foo/fee_suffix.ext (the stem grows by
\* the suffix; the extension, kept without its dot, is replaced).
output_path(input_path, suffix, ext) ==
  [name |-> Append(input_path.name, suffix), dir |-> input_path.dir, ext |-> ext]

\* cv2.drawKeypoints: the picture with the keypoints drawn on it.  Without
\* keypoints it is the picture itself; otherwise it is the picture in which
\* the first detector finds as many keypoints as were drawn.
drawKeypoints(image, keypoints) ==
  IF keypoints = <<>> THEN image ELSE Len(keypoints)

FileEntry(f) == [file |-> f, is_dir |-> FALSE, subdir |-> 0]

DirEntry(d) == [file |-> <<>>, is_dir |-> TRUE, subdir |-> d]

\* os.scandir(path): the entries the directory holds when the walk of it
\* begins; their order is the file system's, so the walk takes them in any
\* order.  (Entries created during the walk are added by ProcessImage.)
Scandir(d) ==
  {FileEntry(f) : f \in {g \in DOMAIN files : files[g].dir = d}}
  \cup {DirEntry(c) : c \in {e \in Dirs \ {Root} : parent[e] = d}}

\* ------------------------------------------------------------ the pipeline
\* A plausible slip: an image that fails to decode is passed on to the
\* detectors as an empty picture.
process_image_NoDecodeCheck(f, ann) ==
  LET image == IF files[f].decodable THEN files[f].image ELSE 0
      keypoints == [i \in DOMAIN DetectorSeq |-> Detect(DetectorSeq[i], image)]
  IN [detections |->
        [i \in DOMAIN DetectorSeq |-> Detection(FilePath(f), DetectorSeq[i], keypoints[i])],
      written |->
        IF ann
        THEN [i \in DOMAIN DetectorSeq |->
                [image |-> drawKeypoints(image, keypoints[i]),
                 path |-> output_path(FilePath(f), Suffix[i], "jpg")]]
        ELSE <<>>]

\* FeaturePipeline.process_image: one Detection per detector, and with
\* annotate one annotated picture per detector written next to the image;
\* [] and nothing written when cv2.imread returns None.
process_image(f, ann) ==
  IF ~files[f].decodable THEN [detections |-> <<>>, written |-> <<>>]
  ELSE LET image == files[f].image
           keypoints == [i \in DOMAIN DetectorSeq |-> Detect(DetectorSeq[i], image)]
       IN [detections |->
             [i \in DOMAIN DetectorSeq |->
                Detection(FilePath(f), DetectorSeq[i], keypoints[i])],
           written |->
             IF ann
             THEN [i \in DOMAIN DetectorSeq |->
                     [image |-> drawKeypoints(image, keypoints[i]),
                      path |-> output_path(FilePath(f), Suffix[i], "jpg")]]
             ELSE <<>>]

\* cv2.imwrite of every annotated picture: the file is created, or
\* overwritten, with the picture as its content.
RECURSIVE imwrite(_, _)
imwrite(fs, written) ==
  IF written = <<>> THEN fs
  ELSE LET w == Head(written)
           file == [image |-> w.image, dir |-> w.path.dir, ext |-> w.path.ext,
                    decodable |-> TRUE]
       IN imwrite([f \in DOMAIN fs \cup {w.path.name} |->
                     IF f = w.path.name THEN file ELSE fs[f]],
                  Tail(written))

\* for detection in detections: stats_file.write(detection.csv_row())
ImageRows(detections) ==
  [i \in DOMAIN detections |-> Detection_csv_row(detections[i])]

\* for detection in detections: detection_lists[detection.detector_name].add(detection)
RECURSIVE AddDetections(_, _)
AddDetections(detection_lists, detections) ==
  IF detections = <<>> THEN detection_lists
  ELSE LET d == Head(detections)
       IN AddDetections(
            [detection_lists EXCEPT ![d.detector_name] = DetectionList_add(@, d)],
            Tail(detections))

\* for detector_name, detection_list in subdir_detection_lists.items():
\*     detection_lists[detector_name].add(detection_list)
AddSubdirectory(detection_lists, subdir_detection_lists) ==
  [n \in DOMAIN detection_lists |->
     IF n \in DOMAIN subdir_detection_lists
     THEN DetectionList_add(detection_lists[n], subdir_detection_lists[n])
     ELSE detection_lists[n]]

\* A plausible slip: recursion does not look at the flag.
ShouldRecurse_Always(entry, rec) == entry.is_dir

\* elif entry.is_dir() and recurse
ShouldRecurse(entry, rec) == entry.is_dir /\ rec

\* for detector_name, detection_list in detection_lists.items():
\*     stats_file.write(detection_list.csv_row())
\* The rows written, in detector order, up to the first csv_row that raises.
RECURSIVE AggregateRows(_, _)
AggregateRows(detection_lists, names) ==
  IF names = <<>> THEN [raised |-> FALSE, rows |-> <<>>]
  ELSE LET row == DetectionList_csv_row(detection_lists[Head(names)])
       IN IF Raised(row) THEN [raised |-> TRUE, rows |-> <<>>]
          ELSE LET rest == AggregateRows(detection_lists, Tail(names))
               IN [raised |-> rest.raised, rows |-> <<row>> \o rest.rows]

\* The first lines of process_directory: open stats.csv for writing, write
\* the header, make one empty DetectionList per detector, list the entries.
Frame(d) ==
  [path |-> d,
   detection_lists |-> [n \in DetectorNames |-> DetectionList(d, n)],
   todo |-> Scandir(d)]

Top == stack[Len(stack)]

\* A plausible slip: one stream for the whole run (as SimplePipeline keeps
\* one results file), so every call writes to the outermost stats.csv.
StatsFile_Shared(stk) == stk[1].path

\* stats_file, a local of each call: the running call writes to the
\* stats.csv of its own directory.
StatsFile(stk) == stk[Len(stk)].path

\* The objects of the merge harness, unused in a pipeline run.
MergeIdle ==
  /\ lists = <<>>
  /\ members = <<>>
  /\ grouped = {}
  /\ adds = 0
  /\ consumed = {}
  /\ mstatus = "ok"

\* The tree before the run.  The input files are interchangeable, so they
\* are numbered by directory and, within a directory, by kind.
Init ==
  /\ parent \in {p \in [Dirs \ {Root} -> Dirs] : \A d \in Dirs \ {Root} : p[d] < d}
  /\ \E fs \in {gs \in [FileIds -> [image : Images, dir : Dirs,
                                    ext : {"png", "jpg", "JPG"}, decodable : BOOLEAN]] :
                 /\ \A i \in FileIds :
                      [image |-> gs[i].image, ext |-> gs[i].ext,
                       decodable |-> gs[i].decodable] \in FileKinds
                 /\ \A i \in FileIds \ {1} :
                      \/ gs[i - 1].dir < gs[i].dir
                      \/ /\ gs[i - 1].dir = gs[i].dir
                         /\ KindRank(gs[i - 1]) <= KindRank(gs[i])} :
       files = [f \in InputNames |-> fs[CHOOSE i \in FileIds : Name(i) = f]]
  /\ recurse \in BOOLEAN
  /\ annotate \in BOOLEAN
  /\ status = "idle"
  /\ stack = <<>>
  /\ stats = [d \in Dirs |-> <<>>]
  /\ opened = {}
  /\ returned = <<>>
  /\ exited = {}
  /\ read = {}
  /\ calls = {}
  /\ MergeIdle

\* main: pipeline.process_directory(args.path, args.recurse, args.annotate)
Start ==
  /\ status = "idle"
  /\ status' = "running"
  /\ stack' = <<Frame(Root)>>
  /\ stats' = [stats EXCEPT ![Root] = <<csv_header>>]
  /\ opened' = opened \cup {Root}
  /\ UNCHANGED <<returned, exited, read, calls>>
  /\ UNCHANGED fsVars
  /\ UNCHANGED mergeVars

\* The annotated pictures that os.scandir has yielded, or will yield, in a
\* walk that was already under way when they were written.
Relisted ==
  {f \in DOMAIN files \ InputNames :
     f \in read \/ \E i \in DOMAIN stack : FileEntry(f) \in stack[i].todo}

\* One turn of the loop on a .jpg file: process_image, then a row and an
\* add per detection.  The annotated pictures are new entries of the
\* directory being walked: os.scandir reads the directory as the loop goes,
\* so each of them is yielded later in this walk or is not, as the file
\* system has it.  At most MaxRelisted of them are yielded in a run.
ProcessImage(e) ==
  /\ status = "running"
  /\ e \in Top.todo
  /\ ~e.is_dir
  /\ IsJpg(e.file)
  /\ LET out == process_image(e.file, annotate)
         detections == out.detections
         created == {out.written[i].path.name : i \in DOMAIN out.written} \ DOMAIN files
     IN /\ stats' = [stats EXCEPT ![StatsFile(stack)] = @ \o ImageRows(detections)]
        /\ files' = imwrite(files, out.written)
        /\ \E yielded \in SUBSET created :
             /\ Cardinality(Relisted) + Cardinality(yielded) <= MaxRelisted
             /\ stack' = [stack EXCEPT ![Len(stack)] =
                            [@ EXCEPT !.todo = (@ \ {e}) \cup {FileEntry(f) : f \in yielded},
                                      !.detection_lists = AddDetections(@, detections)]]
        /\ read' = read \cup {e.file}
        /\ calls' = calls \cup {[detector |-> detections[i].detector_name, file |-> e.file] :
                                i \in DOMAIN detections}
  /\ UNCHANGED <<status, opened, returned, exited>>
  /\ UNCHANGED treeVars
  /\ UNCHANGED mergeVars

\* One turn of the loop on an entry that is neither a .jpg file nor a
\* directory to recurse into.
SkipEntry(e) ==
  /\ status = "running"
  /\ e \in Top.todo
  /\ IF e.is_dir THEN ~ShouldRecurse(e, recurse) ELSE ~IsJpg(e.file)
  /\ stack' = [stack EXCEPT ![Len(stack)] = [@ EXCEPT !.todo = @ \ {e}]]
  /\ UNCHANGED <<status, stats, opened, returned, exited, read, calls>>
  /\ UNCHANGED fsVars
  /\ UNCHANGED mergeVars

\* One turn of the loop on a subdirectory, up to the recursive call's
\* first lines.
EnterSubdirectory(e) ==
  /\ status = "running"
  /\ e \in Top.todo
  /\ ShouldRecurse(e, recurse)
  /\ stack' = Append([stack EXCEPT ![Len(stack)] = [@ EXCEPT !.todo = @ \ {e}]],
                     Frame(e.subdir))
  /\ stats' = [stats EXCEPT ![e.subdir] = <<csv_header>>]
  /\ opened' = opened \cup {e.subdir}
  /\ UNCHANGED <<status, returned, exited, read, calls>>
  /\ UNCHANGED fsVars
  /\ UNCHANGED mergeVars

\* stats_file is opened and never closed by the code.  A stream is closed
\* only by the runtime, when it finalizes the file object that a frame no
\* longer holds: at once when the call returns (reference counting), or
\* not before the run ends.  A call that ends with an exception keeps its
\* frame, and its stream, in the traceback.
OpenStreams(finalizing) ==
  IF finalizing THEN opened \ DOMAIN returned ELSE opened

\* The end of a recursive call: the '**' rows, the return, and the caller's
\* merge of the returned lists.
ReturnToParent ==
  /\ status = "running"
  /\ Len(stack) > 1
  /\ Top.todo = {}
  /\ LET out == AggregateRows(Top.detection_lists, DetectorSeq)
         caller == stack[Len(stack) - 1]
     IN /\ ~out.raised
        /\ stats' = [stats EXCEPT ![StatsFile(stack)] = @ \o out.rows]
        /\ stack' = [SubSeq(stack, 1, Len(stack) - 1) EXCEPT ![Len(stack) - 1] =
                       [caller EXCEPT !.detection_lists =
                          AddSubdirectory(caller.detection_lists, Top.detection_lists)]]
        /\ returned' = (Top.path :> Top.detection_lists) @@ returned
        /\ exited' = exited \cup {Top.path}
  /\ UNCHANGED <<status, opened, read, calls>>
  /\ UNCHANGED fsVars
  /\ UNCHANGED mergeVars

\* The end of the outermost call: the '**' rows and the return to main.
ReturnToCaller ==
  /\ status = "running"
  /\ Len(stack) = 1
  /\ Top.todo = {}
  /\ LET out == AggregateRows(Top.detection_lists, DetectorSeq)
     IN /\ ~out.raised
        /\ stats' = [stats EXCEPT ![StatsFile(stack)] = @ \o out.rows]
        /\ stack' = <<>>
        /\ returned' = (Top.path :> Top.detection_lists) @@ returned
        /\ exited' = exited \cup {Top.path}
        /\ status' = "returned"
  /\ UNCHANGED <<opened, read, calls>>
  /\ UNCHANGED fsVars
  /\ UNCHANGED mergeVars

\* The end of a call whose '**' rows cannot all be formatted: csv_row
\* raises, nothing catches it, and every active call ends with it.
RaiseValueError ==
  /\ status = "running"
  /\ Top.todo = {}
  /\ LET out == AggregateRows(Top.detection_lists, DetectorSeq)
     IN /\ out.raised
        /\ stats' = [stats EXCEPT ![StatsFile(stack)] = @ \o out.rows]
        /\ stack' = <<>>
        /\ exited' = exited \cup {stack[i].path : i \in DOMAIN stack}
        /\ status' = "raised"
  /\ UNCHANGED <<opened, returned, read, calls>>
  /\ UNCHANGED fsVars
  /\ UNCHANGED mergeVars

Next ==
  \/ Start
  \/ \E f \in DOMAIN files : ProcessImage(FileEntry(f))
  \/ \E f \in DOMAIN files : SkipEntry(FileEntry(f))
  \/ \E c \in Dirs : SkipEntry(DirEntry(c))
  \/ \E c \in Dirs : EnterSubdirectory(DirEntry(c))
  \/ ReturnToParent
  \/ ReturnToCaller
  \/ RaiseValueError

Spec == Init /\ [][Next]_vars


\* ------------------------------------------------- claims on the pipeline
\* The directories below d, d included.
RECURSIVE Subtree(_)
Subtree(d) ==
  {d} \cup UNION {Subtree(c) : c \in {e \in Dirs \ {Root} : parent[e] = d}}

ChildDirs(d) == {e \in Dirs \ {Root} : parent[e] = d}

\* The .jpg files that decode, as the tree holds them now.
Decodable == {f \in DOMAIN files : IsJpg(f) /\ files[f].decodable}

DecodableIn(D) == {f \in Decodable : files[f].dir \in D}

\* The .jpg files that do not decode.
Undecodable == {f \in DOMAIN files : IsJpg(f) /\ ~files[f].decodable}

\* The .jpg files the tree held before the run, decodable or not.
InputJpgs(D) == {f \in InputNames : IsJpg(f) /\ files[f].dir \in D}

\* The images the tree held before the run.
InputImages(D) == DecodableIn(D) \cap InputNames

\* The images the run has decoded.
ReadImages(D) == DecodableIn(D) \cap read

\* The response values the detectors produce on the files.
ResponseValues ==
  UNION {{Detect(n, i)[k] : k \in DOMAIN Detect(n, i)} : n \in DetectorNames, i \in Images}

\* The occurrences of v among detector n's responses on the files F.
RECURSIVE ResponseCount(_, _, _)
ResponseCount(n, F, v) ==
  IF F = {} THEN 0
  ELSE LET f == CHOOSE x \in F : TRUE
       IN CountIn(Detect(n, files[f].image), v) + ResponseCount(n, F \ {f}, v)

\* list holds one detection per file of F and exactly detector n's
\* responses on those files.
Aggregates(list, n, F) ==
  /\ list.detector_name = n
  /\ list.num_detections = Cardinality(F)
  /\ \A v \in ResponseValues : CountIn(list.responses, v) = ResponseCount(n, F, v)
  /\ \A i \in DOMAIN list.responses : list.responses[i] \in ResponseValues

IsHeader(line) == "columns" \in DOMAIN line

IsAggregateRow(line) == ~IsHeader(line) /\ line.path.name = <<"**">>

IsImageRow(line) == ~IsHeader(line) /\ line.path.name # <<"**">>

\* The file a per-image row is about.
FileOfRow(line) == line.path.name

\* The positions of the '**' rows of detector n in stats.csv of d.
AggregateLines(d, n) ==
  {i \in DOMAIN stats[d] :
     IsAggregateRow(stats[d][i]) /\ stats[d][i].path = AggPath(d) /\ stats[d][i].detector = n}

\* The positions of the per-image rows of file f and detector n in stats.csv of d.
ImageLines(d, f, n) ==
  {i \in DOMAIN stats[d] :
     IsImageRow(stats[d][i]) /\ stats[d][i].path = FilePath(f) /\ stats[d][i].detector = n}

\* d_num of the '**' row of detector n in stats.csv of d.
AggregateDNum(d, n) == stats[d][CHOOSE i \in AggregateLines(d, n) : TRUE].d_num

RECURSIVE SumDNum(_, _)
SumDNum(D, n) ==
  IF D = {} THEN 0
  ELSE LET d == CHOOSE x \in D : TRUE IN AggregateDNum(d, n) + SumDNum(D \ {d}, n)

\* The returned lists and the '**' rows of d count exactly the files F.
CountsExactly(d, F) ==
  \A n \in DetectorNames :
    /\ Aggregates(returned[d][n], n, F)
    /\ Cardinality(AggregateLines(d, n)) = 1
    /\ AggregateDNum(d, n) = Cardinality(F)
    /\ AggregateDNum(d, n) =
         SumDNum(ChildDirs(d), n) + Cardinality({f \in F : files[f].dir = d})

\* C3: tree cascade.  When process_directory(d, recurse = true) has
\* returned, the returned DetectionList of every detector counts the .jpg
\* files the run successfully decoded anywhere in the subtree of d and holds
\* exactly that detector's responses on them; the one '**' row of d carries
\* that count as d_num, which is the sum of the children's '**' d_num plus
\* the decoded direct images.  Every image the subtree held before the run
\* is among the decoded files.
C3_TreeCascade ==
  recurse =>
    \A d \in DOMAIN returned :
      /\ InputImages(Subtree(d)) \subseteq read
      /\ CountsExactly(d, ReadImages(Subtree(d)))

\* The outermost call has returned with a count of two: the subdirectory
\* holds one decoded image, on which its call returned a count of one, and
\* the root holds one decoded direct image.
C3_Witness ==
  /\ recurse
  /\ status = "returned"
  /\ \E c \in ChildDirs(Root) :
       /\ Cardinality(ReadImages({c})) = 1
       /\ returned[c]["SIFT"].num_detections = 1
       /\ AggregateDNum(c, "SIFT") = 1
  /\ Cardinality(ReadImages({Root})) = 1
  /\ returned[Root]["SIFT"].num_detections = 2
  /\ AggregateDNum(Root, "SIFT") = 2

\* The files whose results the call at stack position i has merged: the
\* direct files it has read, and the files read below the subdirectories
\* whose recursive call has returned.
MergedFiles(i) ==
  LET d == stack[i].path
      done == {c \in ChildDirs(d) :
                 /\ recurse
                 /\ DirEntry(c) \notin stack[i].todo
                 /\ (i < Len(stack) => stack[i + 1].path # c)}
      covered == {d} \cup UNION {Subtree(c) : c \in done}
  IN {f \in read : files[f].dir \in covered}

\* The directories a call on d covers.
Scope(d) == IF recurse THEN Subtree(d) ELSE {d}

\* C4: decode-failure isolation.  For a .jpg that fails to decode no
\* detector is invoked and no row is written, and every aggregate, of every
\* call in progress, is what the decoded files alone make it: the failed
\* file changes no count and no sample.  The entries after it are processed
\* as if it were absent: when a call has returned, every .jpg that was in
\* its directories has been read, and its '**' rows count the decoded ones.
C4_DecodeFailureIsolation ==
  /\ LET failed == Undecodable
     IN /\ \A c \in calls : c.file \notin failed
        /\ \A d \in Dirs : \A i \in DOMAIN stats[d] :
             IsImageRow(stats[d][i]) => FileOfRow(stats[d][i]) \notin failed
  /\ \A i \in DOMAIN stack :
       LET F == MergedFiles(i) \cap Decodable
       IN \A n \in DetectorNames : Aggregates(stack[i].detection_lists[n], n, F)
  /\ \A d \in DOMAIN returned :
       /\ InputJpgs(Scope(d)) \subseteq read
       /\ LET count == Cardinality(ReadImages(Scope(d)))
          IN \A n \in DetectorNames :
               /\ Cardinality(AggregateLines(d, n)) = 1
               /\ AggregateDNum(d, n) = count

\* A directory holding a .jpg that does not decode and one that does has
\* been walked to the end: both were read and the call returned with a
\* count of one.
C4_Witness ==
  \E d \in DOMAIN returned, f \in Undecodable, g \in Decodable :
    /\ files[f].dir = d
    /\ files[g].dir = d
    /\ f \in read
    /\ returned[d]["SIFT"].num_detections = 1
    /\ ImageLines(d, g, "SIFT") # {}

\* C7: without recursion a subdirectory is skipped with no effect: no
\* stats.csv is opened or written below the directory, no file below it is
\* read, given to a detector or written, no recursive call is made, and the
\* returned aggregates and the '**' rows reflect direct image files of the
\* directory only: the images read there, which include every image that
\* was there before the run.
C7_NoRecursion ==
  ~recurse =>
    /\ opened \subseteq {Root}
    /\ \A d \in Dirs \ {Root} : stats[d] = <<>>
    /\ \A c \in calls : files[c.file].dir = Root
    /\ \A f \in read : files[f].dir = Root
    /\ \A f \in DOMAIN files \ InputNames : files[f].dir = Root
    /\ Len(stack) <= 1
    /\ \A d \in DOMAIN returned, n \in DetectorNames :
         /\ d = Root
         /\ InputImages({Root}) \subseteq read
         /\ Aggregates(returned[d][n], n, ReadImages({Root}))
         /\ Cardinality(AggregateLines(d, n)) = 1
         /\ AggregateDNum(d, n) = Cardinality(ReadImages({Root}))

\* A run without recursion has returned; the directory has a decoded image
\* and a subdirectory that holds another one.
C7_Witness ==
  /\ ~recurse
  /\ status = "returned"
  /\ ReadImages({Root}) # {}
  /\ \E c \in ChildDirs(Root) : DecodableIn({c}) # {}

\* C9: no re-emission.  Every line of a directory's stats.csv after the
\* header is a per-image row of one of its direct files that the run has
\* decoded, or one of its own '**' rows, and no earlier line of the file is
\* a row of the same image and detector; every image the run has decoded
\* has a row per detector in the stats.csv of its own directory (so exactly
\* one, and none in another directory's file); and once the directory's call has returned, every image
\* that was in it before the run has its rows and each '**' row is there
\* once.
C9_NoReEmission ==
  /\ \A d \in Dirs :
       LET images == ReadImages({d})
       IN \A i \in DOMAIN stats[d] :
            LET line == stats[d][i]
            IN ~IsHeader(line) =>
                 IF IsAggregateRow(line) THEN line.path = AggPath(d)
                 ELSE /\ FileOfRow(line) \in images
                      /\ line.path = FilePath(FileOfRow(line))
                      /\ \A j \in 2..(i - 1) :
                           stats[d][j].path = line.path
                           => stats[d][j].detector # line.detector
  /\ \A f \in Decodable \cap read, n \in DetectorNames :
       ImageLines(files[f].dir, f, n) # {}
  /\ \A d \in DOMAIN returned, n \in DetectorNames :
       /\ Cardinality(AggregateLines(d, n)) = 1
       /\ InputImages({d}) \subseteq read

\* A recursive run has returned: a subdirectory with a decoded image was
\* walked, and the outer directory wrote rows of its own image too.
C9_Witness ==
  /\ recurse
  /\ status = "returned"
  /\ \E f \in Decodable, g \in Decodable :
       /\ files[f].dir = Root
       /\ files[g].dir # Root
       /\ ImageLines(Root, f, "SIFT") # {}
       /\ ImageLines(files[g].dir, g, "SIFT") # {}

\* The DetectionList objects of the calls in progress.
LiveLists == {stack[i].detection_lists[n] : i \in DOMAIN stack, n \in DetectorNames}

\* C1: formatting never fails on empty samples.  For every DetectionList
\* without responses, whatever its count, csv_row does not raise and
\* returns d_num = num_detections with f_mean, r_min, r_max, r_mean and
\* r_std all 0.
C1_EmptySamplesFormat ==
  \A list \in LiveLists :
    list.responses = <<>> =>
      LET row == DetectionList_csv_row(list)
      IN /\ ~Raised(row)
         /\ row.d_num = list.num_detections
         /\ row.f_mean = Rat(0, 1)
         /\ row.r_min = 0
         /\ row.r_max = 0
         /\ row.r_mean = Rat(0, 1)
         /\ row.r_std = Rat(0, 1)

\* stats.csv of d is complete and in order: the header, then one row per
\* detector for every direct image that was decoded, then one '**' row per
\* detector.
WellFormed(d) ==
  LET lines == stats[d]
      images == Cardinality(ReadImages({d})) * Len(DetectorSeq)
  IN /\ Len(lines) = 1 + images + Len(DetectorSeq)
     /\ IsHeader(lines[1])
     /\ \A i \in 2..(1 + images) :
          /\ IsImageRow(lines[i])
          /\ lines[i].path.dir = d
     /\ \A f \in ReadImages({d}), n \in DetectorNames :
          Cardinality(ImageLines(d, f, n)) = 1
     /\ \A k \in DOMAIN DetectorSeq :
          /\ IsAggregateRow(lines[1 + images + k])
          /\ lines[1 + images + k].path = AggPath(d)
          /\ lines[1 + images + k].detector = DetectorSeq[k]

\* C5: row-before-aggregate ordering.  Once a directory's call has ended,
\* its stats.csv is the header, then every per-image row of its direct
\* files, then exactly one '**' row per detector as the last rows.
C5_RowBeforeAggregate ==
  \A d \in exited : WellFormed(d)

\* C6: scoped output stream.  At any moment, and whenever the runtime
\* finalizes file objects, the open streams are exactly
\* those of the directories whose call is in progress; none stays open
\* after its call has ended.
C6_ScopedStream ==
  \A finalizing \in BOOLEAN :
    OpenStreams(finalizing) = {stack[i].path : i \in DOMAIN stack}

\* C10: per-image rows use the count semantics of the aggregates.  Every
\* per-image row has d_num = 1 and f_mean = number of responses / 1, also
\* for zero keypoints (then with r_min, r_max, r_mean and r_std 0).
C10_ImageRowCount ==
  \A d \in Dirs : \A i \in DOMAIN stats[d] :
    LET line == stats[d][i]
    IN IsImageRow(line) =>
         LET responses == Detect(line.detector, files[FileOfRow(line)].image)
         IN /\ line.d_num = 1
            /\ line.f_mean = Rat(Len(responses), 1)
            /\ responses = <<>> =>
                 /\ line.r_min = 0
                 /\ line.r_max = 0
                 /\ line.r_mean = Rat(0, 1)
                 /\ line.r_std = Rat(0, 1)

\* ------------------------------------------------------- the merge harness
Lists == 1..NumLists

\* The response lists of the Detections that are merged.
MergeResponses == {<<>>, <<1>>, <<2, 1>>}

\* The Detections that are merged: results of the first detector, with any
\* of the response lists.  (The lists are of any detector.)
MergeDetections ==
  {Detection([name |-> Name(1), dir |-> Root, ext |-> "jpg"], DetectorSeq[1], r) :
     r \in MergeResponses}

\* The number of Detections in a bag.
RECURSIVE BagSum(_, _)
BagSum(bag, S) ==
  IF S = {} THEN 0
  ELSE LET k == CHOOSE x \in S : TRUE IN bag[k] + BagSum(bag, S \ {k})

Size(bag) == BagSum(bag, DOMAIN bag)

\* The directory tree of a pipeline run, unused in the merge harness.
PipelineIdle ==
  /\ parent = [d \in Dirs \ {Root} |-> Root]
  /\ files = [f \in InputNames |-> [image |-> 2, dir |-> Root, ext |-> "png", decodable |-> TRUE]]
  /\ recurse = FALSE
  /\ annotate = FALSE
  /\ status = "idle"
  /\ stack = <<>>
  /\ stats = [d \in Dirs |-> <<>>]
  /\ opened = {}
  /\ returned = <<>>
  /\ exited = {}
  /\ read = {}
  /\ calls = {}

MergeInit ==
  /\ PipelineIdle
  /\ lists \in {ls \in [Lists -> {DetectionList(Root, n) : n \in DetectorNames}] :
                 \A l \in Lists \ {NumLists} : ls[l].detector_name = DetectorSeq[1]}
  /\ members = [l \in Lists |-> [d \in MergeDetections |-> 0]]
  /\ grouped = {}
  /\ adds = 0
  /\ consumed = {}
  /\ mstatus = "ok"

\* lists[l].add(other), where other is a Detection (other_id = 0) or the
\* DetectionList lists[other_id].  A failed assert ends the harness.
Add(l, other, other_id) ==
  LET result == DetectionList_add(lists[l], other)
  IN IF Raised(result)
     THEN /\ mstatus' = "AssertionError"
          /\ UNCHANGED <<lists, members, grouped, adds, consumed>>
     ELSE /\ mstatus' = "ok"
          /\ lists' = [lists EXCEPT ![l] = result]
          /\ members' = [members EXCEPT ![l] =
                           IF other_id = 0
                           THEN [@ EXCEPT ![other] = @ + 1]
                           ELSE [d \in MergeDetections |-> @[d] + members[other_id][d]]]
          /\ adds' = adds + 1
          /\ consumed' = IF other_id = 0 THEN consumed ELSE consumed \cup {other_id}
          /\ grouped' = IF other_id # 0 /\ other.num_detections > 0
                        THEN grouped \cup {l} ELSE grouped

\* lists[l].add(d) for a Detection d.
AddDetection(l, d) ==
  /\ mstatus = "ok"
  /\ adds < MaxAdds
  /\ l \notin consumed
  /\ Add(l, d, 0)
  /\ UNCHANGED fsVars
  /\ UNCHANGED runVars

\* lists[l].add(lists[m]) for another DetectionList.  As in the directory
\* walk, a list is merged into one other list and is not used again.
AddList(l, m) ==
  /\ mstatus = "ok"
  /\ adds < MaxAdds
  /\ l # m
  /\ l \notin consumed
  /\ m \notin consumed
  /\ Add(l, lists[m], m)
  /\ UNCHANGED fsVars
  /\ UNCHANGED runVars

MergeNext ==
  \/ \E l \in Lists, d \in MergeDetections : AddDetection(l, d)
  \/ \E l \in Lists, m \in Lists : AddList(l, m)

MergeSpec == MergeInit /\ [][MergeNext]_vars


\* ------------------------------------------------------ claims on the merge
\* The values that occur in MergeResponses.
MergeValues == UNION {{r[i] : i \in DOMAIN r} : r \in MergeResponses}

\* The occurrences of v in the responses of all Detections of a bag.
RECURSIVE BagCount(_, _, _)
BagCount(bag, S, v) ==
  IF S = {} THEN 0
  ELSE LET k == CHOOSE x \in S : TRUE
       IN bag[k] * CountIn(k.responses, v) + BagCount(bag, S \ {k}, v)

SameMultiset(r1, r2) ==
  /\ Len(r1) = Len(r2)
  /\ \A v \in MergeValues : CountIn(r1, v) = CountIn(r2, v)

\* C2: merge is commutative and associative.  Whatever the order of the add
\* calls and whatever the grouping into intermediate DetectionLists, a list's
\* num_detections and the multiset of its responses are determined by the
\* Detections merged into it: num_detections is their number, the responses
\* are the union of theirs, and two lists built from the same Detections
\* agree on both.
C2_MergeOrderIndependent ==
  \A l \in Lists :
    /\ lists[l].num_detections = Size(members[l])
    /\ \A v \in MergeValues :
         CountIn(lists[l].responses, v) = BagCount(members[l], MergeDetections, v)
    /\ \A i \in DOMAIN lists[l].responses : lists[l].responses[i] \in MergeValues
    /\ \A m \in Lists :
         members[m] = members[l] /\ lists[m].detector_name = lists[l].detector_name
         => /\ lists[m].num_detections = lists[l].num_detections
            /\ SameMultiset(lists[m].responses, lists[l].responses)

\* Two lists hold the same Detections, one built with a merge of another
\* list and one from Detections alone, and their responses differ in order.
C2_Witness ==
  \E l \in grouped, m \in Lists \ grouped :
    /\ members[l] = members[m]
    /\ lists[l].num_detections >= 2
    /\ lists[l].responses # lists[m].responses

\* What add(other) must have done to lists[l], in terms of the state before.
AddPost(l, other, other_id) ==
  IF other.detector_name # lists[l].detector_name
  THEN /\ mstatus' = "AssertionError"
       /\ lists' = lists
  ELSE /\ mstatus' = "ok"
       /\ lists'[l].responses = lists[l].responses \o other.responses
       /\ lists'[l].num_detections =
            lists[l].num_detections
            + (IF other.cls = "Detection" THEN 1 ELSE other.num_detections)
       /\ lists'[l].detector_name = lists[l].detector_name
       /\ \A k \in Lists \ {l} : lists'[k] = lists[k]

\* C8: count semantics of merge.  add(other) appends other's responses and
\* adds 1 to num_detections for a Detection (also one with no responses) and
\* other.num_detections for a DetectionList; the other list is left as it
\* was; a merge across detector names raises and changes no list.
C8_CountSemantics ==
  [][/\ \A l \in Lists, d \in MergeDetections :
          AddDetection(l, d) => AddPost(l, d, 0)
     /\ \A l \in Lists, m \in Lists :
          AddList(l, m) => AddPost(l, lists[m], m)]_vars

\* A list of two Detections, one of them without responses, was merged into
\* an empty list, and a later add across detector names has raised.
C8_Witness ==
  /\ mstatus = "AssertionError"
  /\ \E l \in grouped, m \in Lists :
       /\ m # l
       /\ lists[m].num_detections = 2
       /\ Len(lists[m].responses) = 1
       /\ lists[l].num_detections = 2
       /\ lists[l].responses = lists[m].responses

====
